---- MODULE Spec2Model ----
(***************************************************************************)
(* Model of src/v1_Markovs_Chain_NLP.py: the n-gram chain builder          *)
(* (build_ngram_chain), the weighted random text generator                 *)
(* (generate_text), the parallel corpus loader (read_all_text_files with   *)
(* process_single_file) and the start-context selection of the main block. *)
(*                                                                         *)
(* Python values that reach the chain as keys or generate_text as `start`  *)
(* are modelled as records [kind, toks]: None, a bare token (str) or a     *)
(* tuple of tokens.  A bare token "a" and the 1-tuple ("a",) are different *)
(* values, as in Python.                                                   *)
(***************************************************************************)
EXTENDS Integers, Sequences, FiniteSets, TLC

VARIABLES
    words,          \* the corpus handed to build_ngram_chain / the main block
    n,              \* the order handed to build_ngram_chain
    chain,          \* the table: context -> (successor -> count)
    pc,             \* position of the builder / generator caller
    err,            \* the exception raised, NoError when none
    length,         \* generate_text's length argument
    ngram,          \* generate_text's ngram argument
    start,          \* generate_text's start argument
    current_state,  \* generate_text's current_state local
    output,         \* generate_text's output list
    text,           \* generate_text's return value
    folder,         \* loader: the folder's state (exists, files)
    fstage,         \* loader: per file, the stage of its worker task
    results,        \* loader: per file, the value its task returned
    all_words,      \* loader: the aggregated token list
    total_lines,    \* loader: the aggregated line count
    lpc,            \* loader: main thread position
    idx,            \* loader: index of the aggregation loop
    starting_word,  \* main: the seed word
    chains,         \* main: the unigram, bigram and trigram tables
    starts,         \* main: start_unigram, start_bigram, start_trigram
    inits           \* main: per run, the initial state generate_text resolved

genVars  == <<length, ngram, start, current_state, output, text>>
loadVars == <<folder, fstage, results, all_words, total_lines, lpc, idx>>
mainVars == <<starting_word, chains, starts, inits>>
vars == <<words, n, chain, pc, err, genVars, loadVars, mainVars>>

----------------------------------------------------------------------------
(* Bounds of the model *)

MaxCorpus == 4        \* longest corpus of the generator runs
MaxN == 2             \* largest order
MaxLength == 4        \* largest requested length
MaxStart == 2         \* longest tuple passed as start
MaxBuildCorpus == 6   \* longest corpus of the builder runs
MaxFiles == 3         \* most .txt files in the folder
PoolSize == 2         \* worker threads of the executor
MaxMainCorpus == 5    \* longest corpus of the main block

Tokens == {"a", "b", "c"}
BuildTokens == {"a", "b", "c"}

SeqsUpTo(S, k) == UNION {[1..m -> S] : m \in 0..k}

----------------------------------------------------------------------------
(* Python values *)

None == [kind |-> "none", toks |-> <<>>]
Str(t) == [kind |-> "str", toks |-> <<t>>]
Tup(s) == [kind |-> "tuple", toks |-> s]

\* faulty variant: `if start is not None` instead of `if start`
IsNotNone(v) == v.kind # "none"

\* Python truthiness of None, a str and a tuple
Truthy(v) ==
    CASE v.kind = "none" -> FALSE
      [] v.kind = "str" -> v.toks[1] # ""
      [] v.kind = "tuple" -> v.toks # <<>>

NoError == [type |-> "none", msg |-> ""]
ValueError(m) == [type |-> "ValueError", msg |-> m]

EmptyDict == [k \in {} |-> 0]

Min(a, b) == IF a < b THEN a ELSE b
Max(a, b) == IF a > b THEN a ELSE b

\* Python's s[i:j] on a list, 0-based, for 0 <= i
Slice(s, i, j) == SubSeq(s, i + 1, Min(j, Len(s)))

\* Python's s[-k:] on a list, for k >= 1
LastK(s, k) == SubSeq(s, Max(1, Len(s) - k + 1), Len(s))

----------------------------------------------------------------------------
(* build_ngram_chain *)

\* faulty variant: the guard off by one
BuildRaisesOffByOne(ws, k) == Len(ws) < k

\* the guard of line 139
BuildRaises(ws, k) == Len(ws) < k + 1

\* line 145: the context at 0-based position i
ContextAt(ws, k, i) == IF k > 1 THEN Tup(Slice(ws, i, i + k)) ELSE Str(ws[i + 1])

\* faulty variant: the successor read one position early
NextWordAtEarly(ws, k, i) == ws[i + k]

\* line 146: the successor at 0-based position i
NextWordAt(ws, k, i) == ws[i + k + 1]

\* faulty variant: the count is overwritten instead of incremented
ChainAddOverwrite(ch, cur, nxt) ==
    LET inner == IF cur \in DOMAIN ch THEN ch[cur] ELSE EmptyDict
        newInner == [s \in (DOMAIN inner) \cup {nxt} |->
                        IF s = nxt THEN 1 ELSE inner[s]]
    IN [c \in (DOMAIN ch) \cup {cur} |-> IF c = cur THEN newInner ELSE ch[c]]

\* lines 147-149: one increment of chain[current_words][next_word]
ChainAdd(ch, cur, nxt) ==
    LET inner == IF cur \in DOMAIN ch THEN ch[cur] ELSE EmptyDict
        old == IF nxt \in DOMAIN inner THEN inner[nxt] ELSE 0
        newInner == [s \in (DOMAIN inner) \cup {nxt} |->
                        IF s = nxt THEN old + 1 ELSE inner[s]]
    IN [c \in (DOMAIN ch) \cup {cur} |-> IF c = cur THEN newInner ELSE ch[c]]

\* faulty variant: the loop stops one window early
BuildRangeShort(ws, k) == Len(ws) - k - 1

\* line 144: the positions the loop visits
BuildRange(ws, k) == Len(ws) - k

RECURSIVE BuildLoop(_, _, _, _)
BuildLoop(ws, k, i, ch) ==
    IF i >= BuildRange(ws, k) THEN ch
    ELSE BuildLoop(ws, k, i + 1,
                   ChainAdd(ch, ContextAt(ws, k, i), NextWordAt(ws, k, i)))

BuildChain(ws, k) == BuildLoop(ws, k, 0, EmptyDict)

\* A call of build_ngram_chain(words, n)
Build ==
    /\ pc = "idle"
    /\ IF BuildRaises(words, n)
       THEN /\ pc' = "build_raised"
            /\ err' = ValueError("Need at least n+1 words")
            /\ UNCHANGED chain
       ELSE /\ pc' = "built"
            /\ chain' = BuildChain(words, n)
            /\ UNCHANGED err
    /\ UNCHANGED <<words, n, genVars, loadVars, mainVars>>

----------------------------------------------------------------------------
(* generate_text *)

StartValues ==
    {None, Str("")} \cup {Str(t) : t \in Tokens}
        \cup {Tup(s) : s \in SeqsUpTo(Tokens, MaxStart)}

\* line 177: the initial output list
InitialOutput(cs) == IF cs.kind = "tuple" THEN cs.toks ELSE <<cs.toks[1]>>

\* faulty variant: the key is a tuple for every order
GenKeyAlwaysTuple(out, k) == Tup(LastK(out, k))

\* line 181: the lookup key
GenKey(out, k) == IF k > 1 THEN Tup(LastK(out, k)) ELSE Str(out[Len(out)])

\* faulty variant: the loop condition off by one
LoopContinuesOffByOne(out, len) == Len(out) <= len

\* line 180: the loop condition
LoopContinues(out, len) == Len(out) < len

\* lines 186-187: the tokens random.choices can draw (positive weight)
Drawable(dist) == {s \in DOMAIN dist : dist[s] > 0}

\* faulty variant: the empty-table check is missing
ChainEmptyUnchecked(ch) == FALSE

\* line 168: `not chain`
ChainEmpty(ch) == DOMAIN ch = {}

\* line 192: ' '.join(output)
RECURSIVE Join(_)
Join(out) ==
    IF out = <<>> THEN ""
    ELSE IF Len(out) = 1 THEN out[1]
    ELSE out[1] \o " " \o Join(Tail(out))

\* lines 168-177: entry of generate_text(chain, length, ngram, start)
GenEnter ==
    /\ pc \in {"idle", "built"}
    /\ \E len \in 1..MaxLength, k \in 1..MaxN, st \in StartValues :
        /\ length' = len
        /\ ngram' = k
        /\ start' = st
        /\ IF ChainEmpty(chain)
           THEN /\ pc' = "gen_raised"
                /\ err' = ValueError("Empty Markov chain")
                /\ UNCHANGED <<current_state, output>>
           ELSE /\ \E cs \in (IF Truthy(st) THEN {st} ELSE DOMAIN chain) :
                    /\ current_state' = cs
                    /\ output' = InitialOutput(cs)
                /\ pc' = "loop"
                /\ UNCHANGED err
    /\ UNCHANGED <<words, n, chain, text, loadVars, mainVars>>

\* lines 180-188: one iteration that finds its key and appends a successor
GenStep ==
    /\ pc = "loop"
    /\ LoopContinues(output, length)
    /\ GenKey(output, ngram) \in DOMAIN chain
    /\ \E w \in Drawable(chain[GenKey(output, ngram)]) :
        output' = Append(output, w)
    /\ UNCHANGED <<words, n, chain, pc, err, length, ngram, start,
                   current_state, text, loadVars, mainVars>>

\* lines 189-192: the key is unknown (break), then return
GenBreak ==
    /\ pc = "loop"
    /\ LoopContinues(output, length)
    /\ GenKey(output, ngram) \notin DOMAIN chain
    /\ pc' = "returned"
    /\ text' = Join(output)
    /\ UNCHANGED <<words, n, chain, err, length, ngram, start,
                   current_state, output, loadVars, mainVars>>

\* lines 180, 192: the loop condition fails, then return
GenReturn ==
    /\ pc = "loop"
    /\ ~LoopContinues(output, length)
    /\ pc' = "returned"
    /\ text' = Join(output)
    /\ UNCHANGED <<words, n, chain, err, length, ngram, start,
                   current_state, output, loadVars, mainVars>>

----------------------------------------------------------------------------
(* process_single_file and read_all_text_files *)

\* A .txt file: where reading it fails ("open": lines 27-30, "decode": lines
\* 33-34, "none"), whether its content is blank, the tokens clean_txt makes of
\* its content and its line count.
File(fault, blank, toks, lc) ==
    [fault |-> fault, blank |-> blank, tokens |-> toks, lines |-> lc]

FileKinds ==
    { File("none", FALSE, <<"a">>, 1),
      File("none", FALSE, <<"b", "c">>, 2),
      File("none", FALSE, <<>>, 1),
      File("none", TRUE, <<>>, 1),
      File("open", FALSE, <<"a">>, 1),
      File("decode", FALSE, <<"b", "c">>, 2) }

Returned(ws, lc) == [raised |-> FALSE, words |-> ws, lines |-> lc]
Raised == [raised |-> TRUE, words |-> <<>>, lines |-> 0]
Pending == [raised |-> FALSE, words |-> <<>>, lines |-> -1]

\* faulty variant: the handler lets the exception escape the task
OnExceptionEscapes == Raised

\* lines 45-47: the except handler of process_single_file
OnException == Returned(<<>>, 0)

\* lines 37-43: the result for content that was read
OnContent(f) ==
    IF f.blank THEN Returned(<<>>, 0) ELSE Returned(f.tokens, f.lines)

Task(st, ret) == [stage |-> st, ret |-> ret]

NumFiles == Len(folder.files)
Running == {f \in 1..NumFiles : fstage[f].stage \in {"detected", "read"}}

\* the executor's queue is first in, first out, and a task starts when one of
\* the pool's threads is free
MayStart(f) ==
    /\ fstage[f].stage = "queued"
    /\ \A g \in 1..(f - 1) : fstage[g].stage # "queued"
    /\ Cardinality(Running) < PoolSize

\* lines 66-76: validation, then executor.map submits one task per file
LoadSubmit ==
    /\ lpc = "start"
    /\ IF ~folder.exists
       THEN /\ lpc' = "raised"
            /\ err' = ValueError("Folder path does not exist")
            /\ UNCHANGED fstage
       ELSE IF folder.files = <<>>
       THEN /\ lpc' = "raised"
            /\ err' = ValueError("No .txt files found")
            /\ UNCHANGED fstage
       ELSE /\ lpc' = "collect"
            /\ fstage' = [f \in 1..NumFiles |-> Task("queued", Pending)]
            /\ UNCHANGED err
    /\ UNCHANGED <<words, n, chain, pc, genVars, folder, results, all_words,
                   total_lines, idx, mainVars>>

\* lines 25-30: a worker takes the task and detects the file's encoding
TaskDetect(f) ==
    /\ MayStart(f)
    /\ fstage' = [fstage EXCEPT ![f] =
                    IF folder.files[f].fault = "open"
                    THEN Task("done", OnException)
                    ELSE Task("detected", Pending)]
    /\ UNCHANGED <<words, n, chain, pc, err, genVars, folder, results,
                   all_words, total_lines, lpc, idx, mainVars>>

\* lines 33-34: the worker reads the content with the detected encoding
TaskRead(f) ==
    /\ fstage[f].stage = "detected"
    /\ fstage' = [fstage EXCEPT ![f] =
                    IF folder.files[f].fault = "decode"
                    THEN Task("done", OnException)
                    ELSE Task("read", Pending)]
    /\ UNCHANGED <<words, n, chain, pc, err, genVars, folder, results,
                   all_words, total_lines, lpc, idx, mainVars>>

\* lines 37-43: the worker cleans the content and returns
TaskClean(f) ==
    /\ fstage[f].stage = "read"
    /\ fstage' = [fstage EXCEPT ![f] = Task("done", OnContent(folder.files[f]))]
    /\ UNCHANGED <<words, n, chain, pc, err, genVars, folder, results,
                   all_words, total_lines, lpc, idx, mainVars>>

\* line 76: list() takes the next future's result, in submission order,
\* waiting until that task is done; an exception of the task is raised here
LoadCollect ==
    /\ lpc = "collect"
    /\ Len(results) < NumFiles
    /\ LET f == Len(results) + 1 IN
        /\ fstage[f].stage = "done"
        /\ IF fstage[f].ret.raised
           THEN /\ lpc' = "raised"
                /\ err' = [type |-> "Exception", msg |-> "task failed"]
                /\ UNCHANGED results
           ELSE /\ results' = Append(results, fstage[f].ret)
                /\ UNCHANGED <<lpc, err>>
    /\ UNCHANGED <<words, n, chain, pc, genVars, folder, fstage, all_words,
                   total_lines, idx, mainVars>>

\* lines 75-76: leaving the with block joins the pool's threads
LoadJoin ==
    /\ lpc = "collect"
    /\ Len(results) = NumFiles
    /\ \A f \in 1..NumFiles : fstage[f].stage = "done"
    /\ lpc' = "aggregate"
    /\ idx' = 0
    /\ UNCHANGED <<words, n, chain, pc, err, genVars, folder, fstage, results,
                   all_words, total_lines, mainVars>>

\* lines 79-81: one iteration of the aggregation loop
LoadAggregate ==
    /\ lpc = "aggregate"
    /\ idx < Len(results)
    /\ all_words' = all_words \o results[idx + 1].words
    /\ total_lines' = total_lines + results[idx + 1].lines
    /\ idx' = idx + 1
    /\ UNCHANGED <<words, n, chain, pc, err, genVars, folder, fstage, results,
                   lpc, mainVars>>

\* lines 83-89: the empty check and the return
LoadFinish ==
    /\ lpc = "aggregate"
    /\ idx = Len(results)
    /\ IF all_words = <<>>
       THEN /\ lpc' = "raised"
            /\ err' = ValueError("No valid text content found in files")
       ELSE /\ lpc' = "returned"
            /\ UNCHANGED err
    /\ UNCHANGED <<words, n, chain, pc, genVars, folder, fstage, results,
                   all_words, total_lines, idx, mainVars>>

----------------------------------------------------------------------------
(* The main block: the seed word, the three tables and their starts *)

Range(s) == {s[i] : i \in 1..Len(s)}

\* the keys of build_ngram_chain(ws, k) in the order the dict holds them,
\* which is the order lines 147-148 inserted them
RECURSIVE KeyOrderLoop(_, _, _, _)
KeyOrderLoop(ws, k, i, acc) ==
    IF i >= BuildRange(ws, k) THEN acc
    ELSE LET c == ContextAt(ws, k, i)
         IN KeyOrderLoop(ws, k, i + 1,
                         IF c \in Range(acc) THEN acc ELSE Append(acc, c))

KeyOrder(ws, k) == KeyOrderLoop(ws, k, 0, <<>>)

\* lines 226-227: next((key for key in keys if key[0] == w), default)
FirstKeyWith(keys, w, default) ==
    LET hits == {j \in 1..Len(keys) : keys[j].toks[1] = w}
    IN IF hits = {} THEN default
       ELSE keys[CHOOSE j \in hits : \A h \in hits : j <= h]

\* line 225: start_unigram
StartUnigram(w) == Str(w)

\* line 218: random.choice(words)
MainSeed ==
    /\ pc = "m_seed"
    /\ \E i \in 1..Len(words) : starting_word' = words[i]
    /\ pc' = "m_build"
    /\ UNCHANGED <<words, n, chain, err, genVars, loadVars, chains, starts,
                   inits>>

\* lines 221-223 (and 238-239 when one of the three calls raises)
MainBuild ==
    /\ pc = "m_build"
    /\ IF \E k \in 1..3 : BuildRaises(words, k)
       THEN /\ pc' = "m_error"
            /\ err' = ValueError("Need at least n+1 words")
            /\ UNCHANGED chains
       ELSE /\ pc' = "m_starts"
            /\ chains' = [k \in 1..3 |-> BuildChain(words, k)]
            /\ UNCHANGED err
    /\ UNCHANGED <<words, n, chain, genVars, loadVars, starting_word, starts,
                   inits>>

\* lines 225-227; the defaults are drawn before next() looks at the keys
MainStarts ==
    /\ pc = "m_starts"
    /\ \E d2 \in DOMAIN chains[2], d3 \in DOMAIN chains[3] :
        starts' = << StartUnigram(starting_word),
                     FirstKeyWith(KeyOrder(words, 2), starting_word, d2),
                     FirstKeyWith(KeyOrder(words, 3), starting_word, d3) >>
    /\ pc' = "m_run"
    /\ UNCHANGED <<words, n, chain, err, genVars, loadVars, starting_word,
                   chains, inits>>

\* lines 229-231: the next run enters generate_text (lines 168-177) with its
\* table and its start; the walk that follows is GenStep, GenBreak, GenReturn
MainRun ==
    /\ pc = "m_run"
    /\ Len(inits) < 3
    /\ LET k == Len(inits) + 1 IN
        IF ChainEmpty(chains[k])
        THEN /\ pc' = "m_error"
             /\ err' = ValueError("Empty Markov chain")
             /\ UNCHANGED inits
        ELSE /\ \E cs \in (IF Truthy(starts[k]) THEN {starts[k]}
                           ELSE DOMAIN chains[k]) :
                    inits' = Append(inits, InitialOutput(cs))
             /\ UNCHANGED <<pc, err>>
    /\ UNCHANGED <<words, n, chain, genVars, loadVars, starting_word, chains,
                   starts>>

\* lines 233-236: the three texts are printed
MainPrint ==
    /\ pc = "m_run"
    /\ Len(inits) = 3
    /\ pc' = "m_done"
    /\ UNCHANGED <<words, n, chain, err, genVars, loadVars, mainVars>>

----------------------------------------------------------------------------
(* Initial values of the parts a specification does not use *)

GenIdle ==
    /\ length = 0 /\ ngram = 0 /\ start = None
    /\ current_state = None /\ output = <<>> /\ text = ""

LoadIdle ==
    /\ folder = [exists |-> FALSE, files |-> <<>>]
    /\ fstage = <<>> /\ results = <<>>
    /\ all_words = <<>> /\ total_lines = 0
    /\ lpc = "off" /\ idx = 0

MainIdle ==
    /\ starting_word = ""
    /\ chains = <<>> /\ starts = <<>> /\ inits = <<>>

----------------------------------------------------------------------------
(* Builder and generator: a caller builds a table from a corpus and walks  *)
(* it, or calls generate_text on the empty table                           *)

Init ==
    /\ words \in SeqsUpTo(Tokens, MaxCorpus)
    /\ n \in 1..MaxN
    /\ chain = EmptyDict
    /\ pc = "idle"
    /\ err = NoError
    /\ GenIdle /\ LoadIdle /\ MainIdle

Next == Build \/ GenEnter \/ GenStep \/ GenBreak \/ GenReturn

Spec == Init /\ [][Next]_vars

(* Builder alone, on longer corpora over three tokens *)

InitBuild ==
    /\ words \in SeqsUpTo(BuildTokens, MaxBuildCorpus)
    /\ n \in 1..MaxN + 1
    /\ chain = EmptyDict
    /\ pc = "idle"
    /\ err = NoError
    /\ GenIdle /\ LoadIdle /\ MainIdle

NextBuild == Build

SpecBuild == InitBuild /\ [][NextBuild]_vars

(* The loader: a folder of files, the pool's workers and the main thread *)

InitLoad ==
    /\ folder \in [exists : BOOLEAN, files : SeqsUpTo(FileKinds, MaxFiles)]
    /\ fstage = <<>> /\ results = <<>>
    /\ all_words = <<>> /\ total_lines = 0
    /\ lpc = "start" /\ idx = 0
    /\ words = <<>> /\ n = 0 /\ chain = EmptyDict
    /\ pc = "off" /\ err = NoError
    /\ GenIdle /\ MainIdle

NextLoad ==
    \/ LoadSubmit
    \/ \E f \in DOMAIN fstage : TaskDetect(f) \/ TaskRead(f) \/ TaskClean(f)
    \/ LoadCollect
    \/ LoadJoin
    \/ LoadAggregate
    \/ LoadFinish

SpecLoad == InitLoad /\ [][NextLoad]_vars

(* The main block, from the corpus read_all_text_files returned *)

InitMain ==
    /\ words \in SeqsUpTo(Tokens, MaxMainCorpus) \ {<<>>}
    /\ n = 0 /\ chain = EmptyDict
    /\ pc = "m_seed" /\ err = NoError
    /\ GenIdle /\ LoadIdle /\ MainIdle

NextMain == MainSeed \/ MainBuild \/ MainStarts \/ MainRun \/ MainPrint

SpecMain == InitMain /\ [][NextMain]_vars

----------------------------------------------------------------------------
(* Helpers of the properties *)

RECURSIVE SumOver(_, _)
SumOver(f, S) ==
    IF S = {} THEN 0
    ELSE LET x == CHOOSE y \in S : TRUE IN f[x] + SumOver(f, S \ {x})

\* the sum of all successor counts of a table
TotalCount(ch) ==
    SumOver([c \in DOMAIN ch |-> SumOver(ch[c], DOMAIN ch[c])], DOMAIN ch)

\* the 1-based positions of the corpus where the tokens toks are followed by s
Occurrences(toks, s) ==
    {i \in 1..(Len(words) - Len(toks)) :
        /\ SubSeq(words, i, i + Len(toks) - 1) = toks
        /\ words[i + Len(toks)] = s}

\* the last k tokens of the output list
Tail_k(k) == SubSeq(output, Len(output) - k + 1, Len(output))

\* the start values Python treats as absent
FalsyStarts == {None, Str(""), Tup(<<>>)}

Generating == pc \in {"loop", "returned"}

----------------------------------------------------------------------------
(* Properties of build_ngram_chain, checked under SpecBuild *)

\* C2: for every n >= 1 and every corpus of at least n+1 tokens, the counts of
\* the table build_ngram_chain returns sum, over all contexts and successors,
\* to exactly len(corpus) - n.
C2_CountsSumToWindows ==
    pc = "built" => TotalCount(chain) = Len(words) - n

C2_Witness ==
    /\ pc = "built"
    /\ Len(words) = n + 4
    /\ \E c \in DOMAIN chain : \E s \in DOMAIN chain[c] : chain[c][s] >= 2

\* C3: a context c (a bare token when n = 1, an n-tuple when n > 1) with
\* successor s is in the returned table iff the corpus holds c followed by s
\* at some position, and table[c][s] is the number of such positions, so every
\* count is >= 1; the corpus a,b,a,b,a,c with n = 1 gives a -> {b:2, c:1},
\* b -> {a:2} and nothing else.
C3_TableIsOccurrenceCount ==
    pc = "built" =>
        /\ \A c \in DOMAIN chain :
            /\ c.kind = (IF n = 1 THEN "str" ELSE "tuple")
            /\ Len(c.toks) = n
            /\ DOMAIN chain[c] # {}
            /\ \A s \in DOMAIN chain[c] :
                /\ chain[c][s] = Cardinality(Occurrences(c.toks, s))
                /\ chain[c][s] >= 1
        /\ \A i \in 1..(Len(words) - n) :
            LET c == IF n = 1 THEN Str(words[i])
                     ELSE Tup(SubSeq(words, i, i + n - 1))
            IN c \in DOMAIN chain /\ words[i + n] \in DOMAIN chain[c]
        /\ (words = <<"a", "b", "a", "b", "a", "c">> /\ n = 1) =>
            chain = (Str("a") :> ("b" :> 2 @@ "c" :> 1))
                        @@ (Str("b") :> ("a" :> 2))

C3_Witness ==
    /\ pc = "built"
    /\ words = <<"a", "b", "a", "b", "a", "c">>
    /\ n = 1
    /\ chain[Str("a")]["b"] = 2

\* C4: build_ngram_chain fails with the insufficient-data ValueError and
\* returns no table exactly when the corpus has fewer than n+1 tokens (the
\* empty corpus and build(["x"], 1) included); otherwise it does not fail.
C4_InsufficientData ==
    pc \in {"built", "build_raised"} =>
        /\ (pc = "build_raised") <=> (Len(words) < n + 1)
        /\ pc = "build_raised" =>
            /\ err = ValueError("Need at least n+1 words")
            /\ chain = EmptyDict
        /\ pc = "built" => err = NoError /\ DOMAIN chain # {}

C4_Witness ==
    /\ pc = "build_raised"
    /\ Len(words) = 1
    /\ n = 1

----------------------------------------------------------------------------
(* Properties of generate_text, checked under Spec *)

\* C1 as stated: generate_text never returns more tokens than the requested
\* length and never fewer than the initial start context contains.
C1_AsStated ==
    pc = "returned" =>
        /\ Len(output) <= length
        /\ Len(output) >= Len(current_state.toks)

\* C1 as amended: generate_text never returns more tokens than the larger of
\* the requested length and the number of tokens of its initial state (the
\* provided start, or the key drawn when start is absent or falsy), and never
\* fewer tokens than that initial state contains.
C1_LengthBounds ==
    pc = "returned" =>
        /\ Len(output) <= Max(length, Len(current_state.toks))
        /\ Len(output) >= Len(current_state.toks)
        /\ Len(current_state.toks) >= 1

C1_Witness ==
    /\ pc = "returned"
    /\ Len(current_state.toks) > length
    /\ Len(output) = Len(current_state.toks)

\* C5: generate_text on a table with zero entries fails with the empty-chain
\* ValueError for every n, length and start, provided or absent, and produces
\* no output text; on a non-empty table it never raises it.
C5_EmptyChain ==
    pc \in {"gen_raised", "loop", "returned"} =>
        /\ (pc = "gen_raised") <=> (DOMAIN chain = {})
        /\ pc = "gen_raised" =>
            /\ err = ValueError("Empty Markov chain")
            /\ output = <<>>
            /\ text = ""
        /\ pc # "gen_raised" => err = NoError

C5_Witness ==
    /\ pc = "gen_raised"
    /\ start \notin FalsyStarts
    /\ ngram = 2

\* C6: on a non-empty table a provided start is used verbatim, the output
\* beginning with exactly its tokens in order whether or not it is a key of
\* the table; an omitted or falsy start (None, "" or ()) gives an initial
\* state that is a key of the table.
C6_StartResolution ==
    Generating =>
        /\ Len(output) >= Len(current_state.toks)
        /\ SubSeq(output, 1, Len(current_state.toks)) = current_state.toks
        /\ start \notin FalsyStarts => current_state = start
        /\ start \in FalsyStarts => current_state \in DOMAIN chain

C6_Witness ==
    /\ pc = "returned"
    /\ start \notin FalsyStarts
    /\ start \notin DOMAIN chain
    /\ Len(output) > Len(start.toks)

C6_WitnessFalsy ==
    /\ pc = "returned"
    /\ start = Tup(<<>>)
    /\ Len(output) > Len(current_state.toks)

\* C8: at every iteration of the loop (output shorter than length) the key is
\* the last n tokens of the output (a bare token when n = 1); if the key is in
\* the table exactly one token is appended, a successor recorded for the key
\* with count >= 1; otherwise generation returns the output produced so far
\* and raises nothing.
C8_LoopIteration ==
    [][ (pc = "loop" /\ Len(output) < length) =>
            LET key == IF ngram = 1 THEN Str(output[Len(output)])
                       ELSE Tup(SubSeq(output,
                                       Max(1, Len(output) - ngram + 1),
                                       Len(output)))
            IN IF key \in DOMAIN chain
               THEN /\ \E s \in DOMAIN chain[key] :
                        /\ chain[key][s] >= 1
                        /\ output' = Append(output, s)
                    /\ pc' = "loop"
                    /\ err' = NoError
               ELSE /\ pc' = "returned"
                    /\ output' = output
                    /\ text' = Join(output)
                    /\ err' = NoError ]_vars

C8_Witness ==
    /\ pc = "returned"
    /\ ngram = 2
    /\ Len(output) = Len(current_state.toks) + 1
    /\ Len(output) < length

\* C10: for a table built by build_ngram_chain(corpus, n) and a walk with the
\* same n whose initial state is a key of the table, every lookup key is a
\* contiguous n-token subsequence of the corpus, and the walk stops before the
\* requested length only when its key is the final n tokens of the corpus and
\* that n-gram occurs nowhere earlier in the corpus followed by a successor.
C10_WalkStaysInCorpus ==
    (Generating /\ ngram = n /\ current_state \in DOMAIN chain
        /\ Len(output) < length) =>
        /\ Len(output) >= n
        /\ \E i \in 1..(Len(words) - n + 1) :
            SubSeq(words, i, i + n - 1) = Tail_k(n)
        /\ pc = "returned" =>
            /\ Tail_k(n) = SubSeq(words, Len(words) - n + 1, Len(words))
            /\ \A i \in 1..(Len(words) - n) :
                SubSeq(words, i, i + n - 1) # Tail_k(n)

C10_Witness ==
    /\ pc = "returned"
    /\ ngram = n
    /\ n = 2
    /\ current_state \in DOMAIN chain
    /\ Len(output) < length
    /\ Len(output) > n

----------------------------------------------------------------------------
(* Properties of read_all_text_files, checked under SpecLoad *)

\* the tokens a file contributes: none when its read or decode step failed
Contribution(f) == IF f.fault # "none" THEN <<>> ELSE f.tokens

RECURSIVE ConcatContributions(_)
ConcatContributions(fs) ==
    IF fs = <<>> THEN <<>>
    ELSE Contribution(Head(fs)) \o ConcatContributions(Tail(fs))

AllTasksDone == \A f \in 1..NumFiles : fstage[f].stage = "done"

\* C7: a file whose read or decode step fails contributes zero tokens and
\* never aborts the batch: in every interleaving of the workers, aggregation
\* runs only after every worker has completed, the returned corpus is the
\* concatenation of the token lists of the files that did not fail, and the
\* load fails with the empty-corpus ValueError only if every file yielded
\* zero tokens.
C7_LoaderResilience ==
    /\ (lpc \in {"aggregate", "returned"} \/ idx > 0 \/ all_words # <<>>)
            => (fstage # <<>> /\ AllTasksDone)
    /\ lpc = "returned" =>
        /\ all_words = ConcatContributions(folder.files)
        /\ all_words # <<>>
        /\ err = NoError
    /\ (lpc = "raised" /\ folder.exists /\ folder.files # <<>>) =>
        /\ err = ValueError("No valid text content found in files")
        /\ AllTasksDone
        /\ \A f \in 1..NumFiles : Contribution(folder.files[f]) = <<>>

C7_Witness ==
    /\ lpc = "returned"
    /\ NumFiles = 3
    /\ folder.files[1].fault = "decode"
    /\ folder.files[2] = File("none", FALSE, <<"b", "c">>, 2)
    /\ folder.files[3].fault = "open"
    /\ all_words = <<"b", "c">>

----------------------------------------------------------------------------
(* Properties of the main block, checked under SpecMain *)

\* C9: the start Context handed to each of the unigram, bigram and trigram
\* runs is a key of that run's table: one whose first component equals the
\* seed word when the table has such a key, and otherwise some key of the
\* table, without the run failing.
C9_StartsAreKeys ==
    pc \in {"m_run", "m_done"} =>
        \A k \in 1..3 :
            /\ starts[k] \in DOMAIN chains[k]
            /\ (\E c \in DOMAIN chains[k] : c.toks[1] = starting_word)
                    => starts[k].toks[1] = starting_word

\* the part of C9 the bigram and trigram runs do satisfy
HigherOrderStartsAreKeys ==
    pc \in {"m_run", "m_done"} =>
        \A k \in 2..3 :
            /\ starts[k] \in DOMAIN chains[k]
            /\ (\E c \in DOMAIN chains[k] : c.toks[1] = starting_word)
                    => starts[k].toks[1] = starting_word

\* the unigram run whose seed is no key of the unigram table
UnigramSeedUnknown ==
    /\ pc = "m_done"
    /\ starts[1] \notin DOMAIN chains[1]
    /\ inits[1] = <<starting_word>>

====
